---- MODULE Spec2Model ----
(***************************************************************************)
(* A model of the http-proxy server: the admission-controlled listener     *)
(* (server.go), the filter chain wired by NewServer, the CONNECT tunnel   *)
(* of httpconnect.go and the port filter of proxyfilters/connectports.go.  *)
(*                                                                         *)
(* Goroutines: thread 0 is the accept loop of http.Server.Serve, thread c  *)
(* (c >= 1) is the goroutine serving connection c; every established       *)
(* tunnel has one more goroutine, "bg", for the client->target copy.       *)
(* Every step touches at most one shared object (numConns, stopped, the    *)
(* channels stop, restart and q).                                          *)
(***************************************************************************)
EXTENDS Integers, Sequences, FiniteSets, TLC

\* ---------------------------------------------------------------- bounds
\* Client connections that attempt to connect in the admission workload.
NumClients == 3
\* Requests a client sends on one keep-alive connection.
MaxRequests == 2
\* Bytes each side writes into an established tunnel.
MaxPayload == 2
\* Characters of a request's Host given to RestrictConnectPorts.
MaxHostLen == 4

\* ------------------------------------------------------- program constants
\* make(chan net.Conn, 10)
QueueCap == 10
\* make(chan bool, 1)
StopCap == 1
\* math.MaxInt64, as far as TLC's integers reach
MaxInt64 == 2147483647

Conns == 1..NumClients
AcceptLoop == 0
Threads == {AcceptLoop} \cup Conns

VARIABLES
  \* configuration
  token,       \* the token NewServer was called with
  \* Server and stoppableListener
  maxConns,    \* Server.maxConns
  numConns,    \* Server.numConns
  stopped,     \* stoppableListener.stopped
  stop,        \* tokens buffered in the channel stoppableListener.stop
  q,           \* the channel q of doServe: connections announced Active
  \* the accept loop
  apc,         \* position of the accept loop
  acur,        \* the connection Accept just returned (0: none)
  backlog,     \* connections waiting at the operating system's listen queue
  workload,    \* what the clients do: how many connect, the requests they
               \* send, how many per connection, the bytes through a tunnel,
               \* the remote address each connects from
  \* ConnState callback, per goroutine
  cbpc,        \* position inside the ConnState callback ("none": not in it)
  cbState,     \* the http.ConnState the callback was called with
  \* per connection
  tr,          \* the client transport: "none", "backlog", "open", "closed"
  pc,          \* position of the connection's goroutine
  nreq,        \* requests received on the connection so far
  sent,        \* the request as the client sent it
  req,         \* the request being served, as the filters pass it on
  resp,        \* the statuses written to the client for this request
  body,        \* the body written to the client for this request
  events,      \* what intercept did for this request, in order
  held,        \* the connection the queue scan took from q and has to put back
  ctxConn,     \* context.Set(req, "conn", c): 0 when unset
  data,        \* gorilla/context's store: <<c, n, v>> when request n of
               \* connection c has "conn" set to v
  hijacked,    \* the transport was taken over by the handler
  \* per tunnel
  connOut,     \* the outbound connection: "none", "open", "closed"
  closeOnce,   \* sync.Once: "new", "running", "done"
  closeRuns,   \* how many times closeConns ran
  cp,          \* position of the two copy directions: [main |-> .., bg |-> ..]
  idleFired,   \* the idle timer of connOut fired
  cSent, tRecv, tSent, cRecv,   \* bytes written by / delivered to client and target
  cIn, tIn,    \* bytes in flight towards the proxy
  buf,         \* the chunk io.Copy holds between Read and Write, per direction
  \* RestrictConnectPorts
  allowedPorts, \* the allow-list the filter was built with
  portReq,     \* the request given to the filter
  portResp     \* what the filter did with it

filterVars == <<token, allowedPorts, portReq, portResp>>
serverVars == <<maxConns, numConns, stopped, stop, q>>
acceptVars == <<apc, acur, backlog, workload>>
cbVars     == <<cbpc, cbState>>
connVars   == <<tr, pc, nreq, sent, req, resp, body, events, held, ctxConn, data, hijacked>>
tunnelVars == <<connOut, closeOnce, closeRuns, cp, idleFired>>
byteVars   == <<cSent, tRecv, tSent, cRecv, cIn, tIn, buf>>
vars == <<filterVars, serverVars, acceptVars, cbVars, connVars, tunnelVars, byteVars>>


\* ------------------------------------------------------------- requests
Methods == {"CONNECT", "GET"}
\* X-Lantern-Auth-Token: absent, wrong, or the configured one
Tokens  == {"none", "bad", "good"}
\* X-Lantern-UID: absent or present
UIDs    == {"none", "uid"}
\* what the request's Host is: a plaintext server, a TLS-only server, nothing
Targets == {"plain", "tls", "unreachable"}
Requests == [method : Methods, token : Tokens, uid : UIDs, target : Targets]
NoRequest == [method |-> "none", token |-> "none", uid |-> "none", target |-> "none"]

\* NewServer(token, ...): the tokens a proxy is started with in the model
ServerTokens == {"", "good"}

\* NewServer(_, maxConns, _): 0 means no limit
NewServerMaxConns_keepZero(arg) == arg

NewServerMaxConns(arg) == IF arg = 0 THEN MaxInt64 ELSE arg

\* ------------------------------------------------------- the filter chain
firstComponent_tokenFilter == "tokenFilter"

firstComponent_lanternPro == "lanternPro"

\* Server.firstComponent: the filter a request enters first
firstComponent == "deviceFilter"

NextOf_skipTokenFilter(f) ==
  CASE f = "deviceFilter"   -> "lanternPro"
    [] f = "tokenFilter"    -> "lanternPro"
    [] f = "lanternPro"     -> "connectHandler"
    [] f = "connectHandler" -> "forwardHandler"
    [] OTHER                -> "none"

NextOf_noForward(f) ==
  CASE f = "deviceFilter"   -> "tokenFilter"
    [] f = "tokenFilter"    -> "lanternPro"
    [] f = "lanternPro"     -> "connectHandler"
    [] OTHER                -> "none"

\* the "next" each handler was constructed with in NewServer
NextOf(f) ==
  CASE f = "deviceFilter"   -> "tokenFilter"
    [] f = "tokenFilter"    -> "lanternPro"
    [] f = "lanternPro"     -> "connectHandler"
    [] f = "connectHandler" -> "forwardHandler"
    [] OTHER                -> "none"

\* devicefilter: 404 without the UID header; removes the header before continuing
DeviceFilter(r) ==
  IF r.uid = "none" THEN [pass |-> FALSE, status |-> 404, req |-> r]
  ELSE [pass |-> TRUE, status |-> 0, req |-> [r EXCEPT !.uid = "none"]]

\* tokenfilter: 404 without the proper token; removes the header before continuing
TokenFilter(r) ==
  IF r.token # token THEN [pass |-> FALSE, status |-> 404, req |-> r]
  ELSE [pass |-> TRUE, status |-> 0, req |-> [r EXCEPT !.token = "none"]]

\* tokenfilter.New(next, TokenSetter(token), ...): an empty token is a
\* misconfiguration, reported by the constructor, which then returns no
\* filter (as httpconnect.New does when a setter fails)
TokenFilterNew(tok) == IF tok = "" THEN "error" ELSE "ok"

\* profilter: currently a no-op
LanternProFilter(r) == [pass |-> TRUE, status |-> 0, req |-> r]

IsConnect_always(r) == TRUE

\* HTTPConnectHandler.ServeHTTP: anything but CONNECT goes to the next handler
IsConnect(r) == r.method = "CONNECT"

\* forward: the target's answer to a forwarded request
ForwardStatus(r) == IF r.target = "plain" THEN 200 ELSE 500

\* forward: the body streamed back to the client, the target's or an error text
ForwardBody(r) == IF r.target = "plain" THEN "target" ELSE "error"

\* firstComponent.ServeHTTP(w, req): the chain from filter f on. The result is
\* the filters visited, the request as the last of them saw it, and where the
\* request ended: rejected by a filter, at the dispatcher as CONNECT or as
\* a request to forward, or in a call through a filter that was not built.
RECURSIVE ServeHTTP(_, _, _)
ServeHTTP(f, r, visited) ==
  LET v == Append(visited, f)
      Filtered(res) ==
        IF res.pass THEN ServeHTTP(NextOf(f), res.req, v)
        ELSE [end |-> "reject", status |-> res.status, req |-> res.req, visited |-> v]
  IN CASE f = "deviceFilter" -> Filtered(DeviceFilter(r))
       [] f = "tokenFilter"  ->
            \* NewServer drops the constructor's error: tokenFilter, _ := ...
            IF TokenFilterNew(token) = "error"
            THEN [end |-> "panic", status |-> 0, req |-> r, visited |-> v]
            ELSE Filtered(TokenFilter(r))
       [] f = "lanternPro"   -> Filtered(LanternProFilter(r))
       [] f = "connectHandler" ->
            IF IsConnect(r)
            THEN [end |-> "connect", status |-> 0, req |-> r, visited |-> v]
            ELSE ServeHTTP(NextOf(f), r, v)
       [] f = "forwardHandler" ->
            [end |-> "forward", status |-> 0, req |-> r, visited |-> v]
       [] OTHER -> [end |-> "none", status |-> 0, req |-> r, visited |-> v]

\* --------------------------------------------------- RestrictConnectPorts
\* the characters a Host is made of: a letter, the colon, two digits, the
\* brackets of an IPv6 literal and a sign
HostChars == {"a", ":", "0", "1", "[", "]", "+"}
Hosts == UNION {[1..n -> HostChars] : n \in 0..MaxHostLen}
PortRequests == [method : Methods, host : Hosts]
AllowLists == {<<>>, <<1>>, <<10>>, <<1, 10>>}

NoPortReq == [method |-> "none", host |-> <<>>]
NoPortResp == [status |-> 0, next |-> 0, req |-> NoPortReq]

\* strings.IndexByte(s[from:], ch): the first place at or after from where s
\* has ch, 0 when it has none
IndexFrom(s, ch, from) ==
  LET hits == {i \in from..Len(s) : s[i] = ch}
  IN IF hits = {} THEN 0 ELSE CHOOSE i \in hits : \A j \in hits : i <= j

\* the last place where s has ch, 0 when it has none
LastIndex(s, ch) ==
  LET hits == {i \in 1..Len(s) : s[i] = ch}
  IN IF hits = {} THEN 0 ELSE CHOOSE i \in hits : \A j \in hits : i >= j

\* net.SplitHostPort(hostport)
SplitHostPort(hp) ==
  LET i == LastIndex(hp, ":")
      Err == [err |-> TRUE, host |-> <<>>, port |-> <<>>]
      \* j and k: where the scans for a stray '[' and ']' start
      Finish(host, j, k) ==
        IF IndexFrom(hp, "[", j) # 0 \/ IndexFrom(hp, "]", k) # 0
        THEN Err
        ELSE [err |-> FALSE, host |-> host, port |-> SubSeq(hp, i + 1, Len(hp))]
  IN IF i = 0 THEN Err
     ELSE IF hp[1] = "["
     THEN LET end == IndexFrom(hp, "]", 1)
          IN IF end = 0 \/ end + 1 # i THEN Err
             ELSE Finish(SubSeq(hp, 2, end - 1), 2, end + 1)
     ELSE IF IndexFrom(SubSeq(hp, 1, i - 1), ":", 1) # 0 THEN Err
     ELSE Finish(SubSeq(hp, 1, i - 1), 1, 1)

Digits == {"0", "1"}
DigitValue(ch) == IF ch = "1" THEN 1 ELSE 0

\* the number a string of digits reads as, in base 10
RECURSIVE Decimal(_)
Decimal(ds) ==
  IF ds = <<>> THEN 0
  ELSE 10 * Decimal(SubSeq(ds, 1, Len(ds) - 1)) + DigitValue(ds[Len(ds)])

\* strconv.Atoi(s): an optional sign, then one digit at least and digits only
Atoi(str) ==
  LET ds == IF str # <<>> /\ str[1] = "+" THEN Tail(str) ELSE str
  IN IF ds = <<>> \/ \E i \in 1..Len(ds) : ds[i] \notin Digits
     THEN [err |-> TRUE, n |-> 0]
     ELSE [err |-> FALSE, n |-> Decimal(ds)]

\* fail(ctx, req, status, ...): the filter answers itself
PortFail(status) == [status |-> status, next |-> 0, req |-> NoPortReq]
\* next(ctx, req)
PortNext(r) == [status |-> 0, next |-> 1, req |-> r]

RestrictConnectPorts_alwaysRestrict(allowed, r) ==
  IF r.method # "CONNECT" THEN PortNext(r)
  ELSE LET sp == SplitHostPort(r.host) IN
    IF sp.err THEN PortFail(400)
    ELSE LET port == Atoi(sp.port) IN
      IF port.err THEN PortFail(400)
      ELSE IF \E k \in 1..Len(allowed) : allowed[k] = port.n THEN PortNext(r)
      ELSE PortFail(403)

\* RestrictConnectPorts(allowedPorts), applied to a request
RestrictConnectPorts(allowed, r) ==
  IF r.method # "CONNECT" \/ Len(allowed) = 0 THEN PortNext(r)
  ELSE LET sp == SplitHostPort(r.host) IN
    IF sp.err THEN PortFail(400)
    ELSE LET port == Atoi(sp.port) IN
      IF port.err THEN PortFail(400)
      ELSE IF \E k \in 1..Len(allowed) : allowed[k] = port.n THEN PortNext(r)
      ELSE PortFail(403)

\* no port filter is part of the chain NewServer builds
NoPortFilter ==
  /\ allowedPorts = <<>>
  /\ portReq = NoPortReq
  /\ portResp = NoPortResp

\* the filter is applied to the request
ApplyPortFilter ==
  /\ portReq # NoPortReq
  /\ portResp = NoPortResp
  /\ portResp' = RestrictConnectPorts(allowedPorts, portReq)
  /\ UNCHANGED <<token, allowedPorts, portReq, serverVars, acceptVars, cbVars, connVars,
                 tunnelVars, byteVars>>

\* ------------------------------------------------------ remote addresses
\* every client connects from an address of its own
DistinctAddrs == [c \in Conns |-> c]
\* every client but the first connects from the address its predecessor used
ReusedAddrs == [c \in Conns |-> IF c > 1 THEN c - 1 ELSE c]

\* a connection that was Active and is gone, its request never handled
Earlier == NumClients + 1

\* c.RemoteAddr().String(), and req.RemoteAddr of a request on c
RemoteAddr(c) == IF c \in Conns THEN workload.addrs[c] ELSE 0

\* ------------------------------------------------------------------ Init
NoCopy == [main |-> "none", bg |-> "none"]
NoBuf  == [main |-> <<>>, bg |-> <<>>]

InitWith(cap, load) ==
  /\ maxConns = NewServerMaxConns(cap)
  /\ numConns = 0
  /\ stopped = 0
  /\ stop = 0
  /\ q = <<>>
  /\ apc = "select"
  /\ acur = 0
  /\ backlog = <<>>
  /\ workload = load
  /\ cbpc = [t \in Threads |-> "none"]
  /\ cbState = [t \in Threads |-> "none"]
  /\ tr = [c \in Conns |-> "none"]
  /\ pc = [c \in Conns |-> "none"]
  /\ nreq = [c \in Conns |-> 0]
  /\ sent = [c \in Conns |-> NoRequest]
  /\ req = [c \in Conns |-> NoRequest]
  /\ resp = [c \in Conns |-> <<>>]
  /\ body = [c \in Conns |-> "none"]
  /\ events = [c \in Conns |-> <<>>]
  /\ held = [c \in Conns |-> 0]
  /\ ctxConn = [c \in Conns |-> 0]
  /\ data = {}
  /\ hijacked = [c \in Conns |-> FALSE]
  /\ connOut = [c \in Conns |-> "none"]
  /\ closeOnce = [c \in Conns |-> "new"]
  /\ closeRuns = [c \in Conns |-> 0]
  /\ cp = [c \in Conns |-> NoCopy]
  /\ idleFired = [c \in Conns |-> FALSE]
  /\ cSent = [c \in Conns |-> <<>>]
  /\ tRecv = [c \in Conns |-> <<>>]
  /\ tSent = [c \in Conns |-> <<>>]
  /\ cRecv = [c \in Conns |-> <<>>]
  /\ cIn = [c \in Conns |-> <<>>]
  /\ tIn = [c \in Conns |-> <<>>]
  /\ buf = [c \in Conns |-> NoBuf]

\* ------------------------------------------------- the ConnState callback
\* Server.doServe, ConnState: the callback starts with the switch; the states
\* without a case (StateIdle, StateHijacked) start with the load of numConns.
CallbackEntry(state) ==
  IF state \in {"New", "Active", "Closed"} THEN "switch" ELSE "load"

\* the connection a goroutine's callback is about
CbConn(t) == IF t = AcceptLoop THEN acur ELSE t

\* switch state { case http.StateNew: ...; case http.StateActive: ...; case http.StateClosed: ... }
CbSwitch(t) ==
  /\ cbpc[t] = "switch"
  /\ CASE cbState[t] = "New" ->
            /\ numConns' = numConns + 1
            /\ q' = q
       [] cbState[t] = "Closed" ->
            /\ numConns' = numConns - 1
            /\ q' = q
       [] OTHER ->
            \* select { case q <- c: default: print }
            /\ q' = IF Len(q) < QueueCap THEN Append(q, CbConn(t)) ELSE q
            /\ numConns' = numConns
  /\ cbpc' = [cbpc EXCEPT ![t] = "load"]
  /\ UNCHANGED <<filterVars, maxConns, stopped, stop, acceptVars, cbState, connVars, tunnelVars, byteVars>>


connRest   == <<tr, nreq, sent, req, resp, body, events, held, ctxConn, data, hijacked>>
acceptRest == <<backlog, workload>>

InterceptSteps_dialFirst == <<"dial", "respondOK", "hijack">>

\* HTTPConnectHandler.intercept: RespondOK, then Hijack, then net.Dial
InterceptSteps == <<"respondOK", "hijack", "dial">>

\* the step of intercept that follows step s; after the last one, the relay
StepAfter(s) ==
  LET i == CHOOSE k \in 1..Len(InterceptSteps) : InterceptSteps[k] = s
  IN IF i < Len(InterceptSteps) THEN InterceptSteps[i + 1] ELSE "relay"

\* net/http, conn.serve: where the goroutine goes on after setState(state)
AfterCallback(c, state) ==
  CASE state = "Active"   -> IF req[c].method = "malformed" THEN "badRequest" ELSE "scan"
    [] state = "Idle"     -> "read"
    [] state = "Hijacked" -> StepAfter("hijack")
    [] OTHER              -> "done"

\* The callback returns. In the accept loop, Serve starts the connection's
\* goroutine (go c.serve()) and calls Accept again.
CbReturn(t) ==
  /\ cbpc' = [cbpc EXCEPT ![t] = "none"]
  /\ IF t = AcceptLoop
     THEN /\ apc' = "select"
          /\ pc' = [pc EXCEPT ![acur] = "read"]
          /\ acur' = 0
     ELSE /\ pc' = [pc EXCEPT ![t] = AfterCallback(t, cbState[t])]
          /\ UNCHANGED <<apc, acur>>

\* atomic.LoadInt64(&s.numConns) >= s.maxConns
CbLoad(t) ==
  /\ cbpc[t] = "load"
  /\ cbpc' = [cbpc EXCEPT ![t] = IF numConns >= maxConns THEN "stopCheck" ELSE "isStopped"]
  /\ UNCHANGED <<filterVars, serverVars, acceptVars, cbState, connVars, tunnelVars, byteVars>>

\* Stop: if !sl.IsStopped()
StopCheck(t) ==
  /\ cbpc[t] = "stopCheck"
  /\ IF stopped = 1
     THEN CbReturn(t)
     ELSE /\ cbpc' = [cbpc EXCEPT ![t] = "stopSend"]
          /\ UNCHANGED <<apc, acur, pc>>
  /\ UNCHANGED <<filterVars, serverVars, acceptRest, cbState, connRest, tunnelVars, byteVars>>

\* Stop: sl.stop <- true (blocks while the buffer is full)
StopSend(t) ==
  /\ cbpc[t] = "stopSend"
  /\ stop < StopCap
  /\ stop' = stop + 1
  /\ cbpc' = [cbpc EXCEPT ![t] = "stopStore"]
  /\ UNCHANGED <<filterVars, maxConns, numConns, stopped, q, acceptVars, cbState, connVars, tunnelVars, byteVars>>

\* Stop: atomic.StoreInt32(&sl.stopped, 1)
StopStore(t) ==
  /\ cbpc[t] = "stopStore"
  /\ stopped' = 1
  /\ CbReturn(t)
  /\ UNCHANGED <<filterVars, maxConns, numConns, stop, q, acceptRest, cbState, connRest, tunnelVars, byteVars>>

\* else if s.listener.IsStopped()
IsStoppedCheck(t) ==
  /\ cbpc[t] = "isStopped"
  /\ IF stopped = 1
     THEN /\ cbpc' = [cbpc EXCEPT ![t] = "restartCheck"]
          /\ UNCHANGED <<apc, acur, pc>>
     ELSE CbReturn(t)
  /\ UNCHANGED <<filterVars, serverVars, acceptRest, cbState, connRest, tunnelVars, byteVars>>

\* Restart: if sl.IsStopped()
RestartCheck(t) ==
  /\ cbpc[t] = "restartCheck"
  /\ IF stopped = 1
     THEN /\ cbpc' = [cbpc EXCEPT ![t] = "restartSend"]
          /\ UNCHANGED <<apc, acur, pc>>
     ELSE CbReturn(t)
  /\ UNCHANGED <<filterVars, serverVars, acceptRest, cbState, connRest, tunnelVars, byteVars>>

\* Restart: sl.restart <- true, received by Accept's <-sl.restart (the channel
\* has no buffer: the send waits for the accept loop to be at the receive)
RestartSend(t) ==
  /\ cbpc[t] = "restartSend"
  /\ apc = "waitRestart"
  /\ apc' = "accept"
  /\ cbpc' = [cbpc EXCEPT ![t] = "restartStore"]
  /\ UNCHANGED <<filterVars, serverVars, acur, acceptRest, cbState, connVars, tunnelVars, byteVars>>

\* Restart: atomic.StoreInt32(&sl.stopped, 0)
RestartStore(t) ==
  /\ cbpc[t] = "restartStore"
  /\ stopped' = 0
  /\ CbReturn(t)
  /\ UNCHANGED <<filterVars, maxConns, numConns, stop, q, acceptRest, cbState, connRest, tunnelVars, byteVars>>

\* -------------------------------------------------------- the accept loop
\* a client connects: the connection waits in the listen backlog
Arrive(c) ==
  /\ tr[c] = "none"
  /\ c <= workload.clients
  /\ \A d \in Conns : d < c => tr[d] # "none"
  \* two live connections differ in their remote address
  /\ \A d \in Conns : tr[d] \in {"backlog", "open"} => RemoteAddr(d) # RemoteAddr(c)
  /\ tr' = [tr EXCEPT ![c] = "backlog"]
  /\ backlog' = Append(backlog, c)
  /\ UNCHANGED <<filterVars, serverVars, apc, acur, workload, cbVars, pc, nreq, sent, req, resp, body,
                 events, held, ctxConn, data, hijacked, tunnelVars, byteVars>>

\* stoppableListener.Accept: select { case <-sl.stop: <-sl.restart; default: }
AcceptSelect ==
  /\ apc = "select"
  /\ IF stop > 0
     THEN /\ stop' = stop - 1
          /\ apc' = "waitRestart"
     ELSE /\ stop' = stop
          /\ apc' = "accept"
  /\ UNCHANGED <<filterVars, maxConns, numConns, stopped, q, acur, acceptRest, cbVars, connVars,
                 tunnelVars, byteVars>>

\* stoppableListener.Accept: return sl.Listener.Accept(); then Serve reports
\* the connection as StateNew from the accept loop
ListenerAccept ==
  /\ apc = "accept"
  /\ backlog # <<>>
  /\ LET c == Head(backlog) IN
       /\ tr' = [tr EXCEPT ![c] = "open"]
       /\ acur' = c
       /\ pc' = [pc EXCEPT ![c] = "new"]
  /\ backlog' = Tail(backlog)
  /\ apc' = "stateNew"
  /\ cbState' = [cbState EXCEPT ![AcceptLoop] = "New"]
  /\ cbpc' = [cbpc EXCEPT ![AcceptLoop] = CallbackEntry("New")]
  /\ UNCHANGED <<filterVars, serverVars, workload, nreq, sent, req, resp, body, events, held, ctxConn, data,
                 hijacked, tunnelVars, byteVars>>

\* sl.Listener.Accept() fails with an error that is a net.Error and
\* Temporary(): http.Server.Serve sleeps and calls Accept again
AcceptTemporary ==
  /\ apc = "accept"
  /\ apc' = "select"
  /\ UNCHANGED <<filterVars, serverVars, acur, acceptRest, cbVars, connVars, tunnelVars,
                 byteVars>>

\* sl.Listener.Accept() fails with any other error: Accept returns it,
\* http.Server.Serve returns it and doServe returns
AcceptFails ==
  /\ apc = "accept"
  /\ apc' = "returned"
  /\ UNCHANGED <<filterVars, serverVars, acur, acceptRest, cbVars, connVars, tunnelVars,
                 byteVars>>

\* Before the clients of the workload connect, a connection comes and goes
\* whose request never reaches the handler (it does not parse): StateNew,
\* StateActive with select { case q <- c: default: }, StateClosed. Nothing
\* takes it out of q again.
EarlierActive ==
  /\ \A c \in Conns : tr[c] = "none"
  /\ apc = "select" /\ stop = 0
  /\ Len(q) < QueueCap
  /\ q' = Append(q, Earlier)
  /\ UNCHANGED <<filterVars, maxConns, numConns, stopped, stop, acceptVars, cbVars, connVars,
                 tunnelVars, byteVars>>

\* ------------------------------------------- a connection's goroutine
Malformed == [method |-> "malformed", token |-> "none", uid |-> "none", target |-> "none"]

\* enter the ConnState callback from connection c's goroutine
EnterCallback(c, state) ==
  /\ cbState' = [cbState EXCEPT ![c] = state]
  /\ cbpc' = [cbpc EXCEPT ![c] = CallbackEntry(state)]

\* net/http, conn.serve: the first bytes of a request arrive, and the
\* connection is reported StateActive before the request is parsed
ClientRequest(c, r) ==
  /\ pc[c] = "read"
  /\ nreq[c] < workload.requests
  /\ r \in workload.kinds
  /\ nreq' = [nreq EXCEPT ![c] = @ + 1]
  /\ sent' = [sent EXCEPT ![c] = r]
  /\ req' = [req EXCEPT ![c] = r]
  /\ resp' = [resp EXCEPT ![c] = <<>>]
  /\ body' = [body EXCEPT ![c] = "none"]
  /\ events' = [events EXCEPT ![c] = <<>>]
  /\ ctxConn' = [ctxConn EXCEPT ![c] = 0]
  /\ pc' = [pc EXCEPT ![c] = "callback"]
  /\ EnterCallback(c, "Active")
  /\ UNCHANGED <<filterVars, serverVars, acceptVars, tr, held, data, hijacked, tunnelVars,
                 byteVars>>

\* net/http, conn.serve: the connection ends (the read fails, or the server
\* does not reuse it): c.close(), then setState(StateClosed)
CloseConn(c, from) ==
  /\ pc[c] = from
  /\ tr' = [tr EXCEPT ![c] = "closed"]
  /\ pc' = [pc EXCEPT ![c] = "callback"]
  /\ EnterCallback(c, "Closed")

\* the client goes away while the server waits for a request
ClientGone(c) ==
  /\ CloseConn(c, "read")
  /\ UNCHANGED <<filterVars, serverVars, acceptVars, nreq, sent, req, resp, body, events, held, ctxConn, data,
                 hijacked, tunnelVars, byteVars>>

\* net/http, conn.serve: a request that does not parse is answered 400 and
\* the connection closed; the handler is not called
BadRequest(c) ==
  /\ CloseConn(c, "badRequest")
  /\ resp' = [resp EXCEPT ![c] = Append(@, 400)]
  /\ UNCHANGED <<filterVars, serverVars, acceptVars, nreq, sent, req, body, events, held, ctxConn, data,
                 hijacked, tunnelVars, byteVars>>

\* doServe, proxy: for c := range q, one receive from q. A connection whose
\* remote address is the request's is stored under "conn" and the scan ends.
HandlerScan(c) ==
  /\ pc[c] = "scan"
  /\ held[c] = 0
  /\ q # <<>>
  /\ q' = Tail(q)
  /\ IF RemoteAddr(Head(q)) = RemoteAddr(c)
     THEN /\ ctxConn' = [ctxConn EXCEPT ![c] = Head(q)]
          /\ data' = data \cup {<<c, nreq[c], Head(q)>>}
          /\ pc' = [pc EXCEPT ![c] = "serve"]
          /\ held' = held
     ELSE /\ held' = [held EXCEPT ![c] = Head(q)]
          /\ UNCHANGED <<ctxConn, data, pc>>
  /\ UNCHANGED <<filterVars, maxConns, numConns, stopped, stop, acceptVars, cbVars, tr, nreq, sent, req,
                 resp, body, events, hijacked, tunnelVars, byteVars>>

\* doServe, proxy: q <- c, another request's connection goes back into q
HandlerRequeue(c) ==
  /\ pc[c] = "scan"
  /\ held[c] # 0
  /\ Len(q) < QueueCap
  /\ q' = Append(q, held[c])
  /\ held' = [held EXCEPT ![c] = 0]
  /\ UNCHANGED <<filterVars, maxConns, numConns, stopped, stop, acceptVars, cbVars, tr, pc, nreq,
                 sent, req, resp, body, events, ctxConn, data, hijacked, tunnelVars, byteVars>>

\* doServe, proxy: s.firstComponent.ServeHTTP(w, req), up to the dispatcher
HandlerServe(c) ==
  /\ pc[c] = "serve"
  /\ LET res == ServeHTTP(firstComponent, req[c], <<>>) IN
       /\ req' = [req EXCEPT ![c] = res.req]
       /\ resp' = [resp EXCEPT ![c] = IF res.end = "reject" THEN Append(@, res.status) ELSE @]
       /\ pc' = [pc EXCEPT ![c] = CASE res.end = "connect" -> InterceptSteps[1]
                                    [] res.end = "forward" -> "forward"
                                    [] res.end = "panic"   -> "panic"
                                    [] OTHER               -> "finish"]
  /\ UNCHANGED <<filterVars, serverVars, acceptVars, cbVars, tr, nreq, sent, body, events, held,
                 ctxConn, data, hijacked, tunnelVars, byteVars>>

\* forward.ServeHTTP: the round trip to the target, answered to the client
Forward(c) ==
  /\ pc[c] = "forward"
  /\ resp' = [resp EXCEPT ![c] = Append(@, ForwardStatus(req[c]))]
  /\ body' = [body EXCEPT ![c] = ForwardBody(req[c])]
  /\ events' = [events EXCEPT ![c] = Append(@, "forward")]
  /\ pc' = [pc EXCEPT ![c] = "finish"]
  /\ UNCHANGED <<filterVars, serverVars, acceptVars, cbVars, tr, nreq, sent, req, held, ctxConn, data,
                 hijacked, tunnelVars, byteVars>>

\* net/http, conn.serve: the request and its response writer are dropped
EndRequest(c) ==
  /\ sent' = [sent EXCEPT ![c] = NoRequest]
  /\ req' = [req EXCEPT ![c] = NoRequest]
  /\ resp' = [resp EXCEPT ![c] = <<>>]
  /\ body' = [body EXCEPT ![c] = "none"]
  /\ events' = [events EXCEPT ![c] = <<>>]

\* net/http, conn.serve: the handler returned and the connection is kept
\* alive for the next request: setState(StateIdle)
FinishKeepAlive(c) ==
  /\ pc[c] = "finish"
  /\ pc' = [pc EXCEPT ![c] = "callback"]
  /\ EnterCallback(c, "Idle")
  /\ EndRequest(c)
  /\ UNCHANGED <<filterVars, serverVars, acceptVars, tr, nreq, held, ctxConn, data, hijacked,
                 tunnelVars, byteVars>>

\* net/http, conn.serve: the handler returned and the connection is not reused
FinishClose(c) ==
  /\ CloseConn(c, "finish")
  /\ EndRequest(c)
  /\ UNCHANGED <<filterVars, serverVars, acceptVars, nreq, held, ctxConn, data, hijacked,
                 tunnelVars, byteVars>>


\* net/http, conn.serve: a panic in the handler is recovered and the
\* connection closed
HandlerPanic(c) ==
  /\ CloseConn(c, "panic")
  /\ EndRequest(c)
  /\ UNCHANGED <<filterVars, serverVars, acceptVars, nreq, held, ctxConn, data, hijacked,
                 tunnelVars, byteVars>>


\* ------------------------------------------- HTTPConnectHandler.intercept
\* utils.RespondOK(w, req)
RespondOK(c) ==
  /\ pc[c] = "respondOK"
  /\ resp' = [resp EXCEPT ![c] = Append(@, 200)]
  /\ events' = [events EXCEPT ![c] = Append(@, "ok")]
  /\ pc' = [pc EXCEPT ![c] = StepAfter("respondOK")]
  /\ UNCHANGED <<filterVars, serverVars, acceptVars, cbVars, tr, nreq, sent, req, body, held, ctxConn, data,
                 hijacked, tunnelVars, byteVars>>

\* clientConn, _, err := w.(http.Hijacker).Hijack(): net/http reports the
\* connection StateHijacked, its last state
Hijack(c) ==
  /\ pc[c] = "hijack"
  /\ hijacked' = [hijacked EXCEPT ![c] = TRUE]
  /\ events' = [events EXCEPT ![c] = Append(@, "hijack")]
  /\ pc' = [pc EXCEPT ![c] = "callback"]
  /\ EnterCallback(c, "Hijacked")
  /\ UNCHANGED <<filterVars, serverVars, acceptVars, tr, nreq, sent, req, resp, body, held, ctxConn, data,
                 tunnelVars, byteVars>>

\* Hijack fails: utils.RespondBadGateway(w, req, ...); return
HijackFail(c) ==
  /\ pc[c] = "hijack"
  /\ resp' = [resp EXCEPT ![c] = Append(@, 502)]
  /\ events' = [events EXCEPT ![c] = Append(@, "hijackFailed")]
  /\ pc' = [pc EXCEPT ![c] = "finish"]
  /\ UNCHANGED <<filterVars, serverVars, acceptVars, cbVars, tr, nreq, sent, req, body, held, ctxConn, data,
                 hijacked, tunnelVars, byteVars>>

\* connOutRaw, err := net.Dial("tcp", req.Host); if err != nil { return }
Dial(c) ==
  /\ pc[c] = "dial"
  /\ IF req[c].target = "unreachable"
     THEN /\ events' = [events EXCEPT ![c] = Append(@, "dialFailed")]
          /\ pc' = [pc EXCEPT ![c] = "done"]
          /\ UNCHANGED <<tr, connOut>>
     ELSE /\ events' = [events EXCEPT ![c] = Append(@, "dial")]
          /\ pc' = [pc EXCEPT ![c] = StepAfter("dial")]
          /\ connOut' = [connOut EXCEPT ![c] = "open"]
          /\ UNCHANGED tr
  /\ UNCHANGED <<filterVars, serverVars, acceptVars, cbVars, nreq, sent, req, resp, body, held, ctxConn, data,
                 hijacked, closeOnce, closeRuns, cp, idleFired, byteVars>>

\* connOut := idletiming.Conn(...); go func() { io.Copy(connOut, clientConn) ... }();
\* io.Copy(clientConn, connOut)
StartRelay(c) ==
  /\ pc[c] = "relay"
  /\ cp' = [cp EXCEPT ![c] = [main |-> "copy", bg |-> "copy"]]
  /\ pc' = [pc EXCEPT ![c] = "tunnel"]
  /\ UNCHANGED <<filterVars, serverVars, acceptVars, cbVars, connRest, connOut, closeOnce,
                 closeRuns, idleFired, byteVars>>

\* ------------------------------------------------------------ the relay
\* "main" is io.Copy(clientConn, connOut), run by the handler's goroutine;
\* "bg" is io.Copy(connOut, clientConn), run by the goroutine intercept starts
Dirs == {"main", "bg"}
SrcOpen(c, g) == IF g = "main" THEN connOut[c] = "open" ELSE tr[c] = "open"
DstOpen(c, g) == IF g = "main" THEN tr[c] = "open" ELSE connOut[c] = "open"

\* the goroutine of direction g moves on; when "main" returns, intercept and
\* the handler return
CopyGoto(c, g, to) ==
  /\ cp' = [cp EXCEPT ![c][g] = to]
  /\ pc' = [pc EXCEPT ![c] = IF g = "main" /\ to = "ret" THEN "done" ELSE @]

\* io.Copy returns: the peer of the source sent EOF or reset the connection
CopyEnd(c, g) ==
  /\ cp[c][g] = "copy"
  /\ buf[c][g] = <<>>
  /\ SrcOpen(c, g)
  /\ CopyGoto(c, g, "once")
  /\ UNCHANGED <<filterVars, serverVars, acceptVars, cbVars, connRest, connOut, closeOnce,
                 closeRuns, idleFired, byteVars>>

\* io.Copy returns: its Read fails because the source was closed on this
\* side, or its Write because the destination was
CopyClosed(c, g) ==
  /\ cp[c][g] = "copy"
  /\ IF buf[c][g] = <<>> THEN ~SrcOpen(c, g) ELSE ~DstOpen(c, g)
  /\ CopyGoto(c, g, "once")
  /\ buf' = [buf EXCEPT ![c][g] = <<>>]
  /\ UNCHANGED <<filterVars, serverVars, acceptVars, cbVars, connRest, connOut, closeOnce,
                 closeRuns, idleFired, cSent, tRecv, tSent, cRecv, cIn, tIn>>

OnceDo_noGuard(c, g) ==
  /\ cp[c][g] = "once"
  /\ closeOnce' = [closeOnce EXCEPT ![c] = "running"]
  /\ closeRuns' = [closeRuns EXCEPT ![c] = @ + 1]
  /\ CopyGoto(c, g, "closeClient")
  /\ UNCHANGED <<filterVars, serverVars, acceptVars, cbVars, connRest, connOut, idleFired, byteVars>>

\* closeOnce.Do(closeConns): the first caller runs closeConns, a caller that
\* comes while it runs waits for it, a later caller returns at once
OnceDo(c, g) ==
  /\ cp[c][g] = "once"
  /\ closeOnce[c] # "running"
  /\ IF closeOnce[c] = "new"
     THEN /\ closeOnce' = [closeOnce EXCEPT ![c] = "running"]
          /\ closeRuns' = [closeRuns EXCEPT ![c] = @ + 1]
          /\ CopyGoto(c, g, "closeClient")
     ELSE /\ CopyGoto(c, g, "ret")
          /\ UNCHANGED <<closeOnce, closeRuns>>
  /\ UNCHANGED <<filterVars, serverVars, acceptVars, cbVars, connRest, connOut, idleFired, byteVars>>

\* closeConns: clientConn.Close()
CloseClient(c, g) ==
  /\ cp[c][g] = "closeClient"
  /\ tr' = [tr EXCEPT ![c] = "closed"]
  /\ CopyGoto(c, g, "closeOut")
  /\ UNCHANGED <<filterVars, serverVars, acceptVars, cbVars, nreq, sent, req, resp, body, events, held,
                 ctxConn, data, hijacked, connOut, closeOnce, closeRuns, idleFired, byteVars>>

CloseOut_keepOpen(c, g) ==
  /\ cp[c][g] = "closeOut"
  /\ closeOnce' = [closeOnce EXCEPT ![c] = "done"]
  /\ CopyGoto(c, g, "ret")
  /\ UNCHANGED <<filterVars, serverVars, acceptVars, cbVars, connRest, connOut, closeRuns,
                 idleFired, byteVars>>

\* closeConns: connOut.Close(); closeConns returns and Do marks the Once done
CloseOut(c, g) ==
  /\ cp[c][g] = "closeOut"
  /\ connOut' = [connOut EXCEPT ![c] = "closed"]
  /\ closeOnce' = [closeOnce EXCEPT ![c] = "done"]
  /\ CopyGoto(c, g, "ret")
  /\ UNCHANGED <<filterVars, serverVars, acceptVars, cbVars, connRest, closeRuns, idleFired, byteVars>>

IdleFire_noClose(c) ==
  /\ pc[c] = "tunnel"
  /\ connOut[c] = "open"
  /\ ~idleFired[c]
  /\ idleFired' = [idleFired EXCEPT ![c] = TRUE]
  /\ UNCHANGED <<filterVars, serverVars, acceptVars, cbVars, connVars, connOut, closeOnce,
                 closeRuns, cp, byteVars>>

\* idletiming.Conn: nothing was read from or written to connOut for
\* idleTimeout; the callback closes connOutRaw
IdleFire(c) ==
  /\ pc[c] = "tunnel"
  /\ connOut[c] = "open"
  /\ ~idleFired[c]
  /\ idleFired' = [idleFired EXCEPT ![c] = TRUE]
  /\ connOut' = [connOut EXCEPT ![c] = "closed"]
  /\ UNCHANGED <<filterVars, serverVars, acceptVars, cbVars, connVars, closeOnce, closeRuns,
                 cp, byteVars>>


\* ------------------------------------------------- bytes through a tunnel
\* The bytes written into a tunnel are told apart by their place: the k-th
\* byte a side writes is k.
NextByte(written) == Len(written) + 1

\* the client writes a byte after the 200 status line
ClientWrite(c) ==
  /\ hijacked[c]
  /\ tr[c] = "open"
  /\ Len(cSent[c]) < workload.payload
  /\ cSent' = [cSent EXCEPT ![c] = Append(@, NextByte(cSent[c]))]
  /\ cIn' = [cIn EXCEPT ![c] = Append(@, NextByte(cSent[c]))]
  /\ UNCHANGED <<filterVars, serverVars, acceptVars, cbVars, connVars, tunnelVars, tRecv, tSent,
                 cRecv, tIn, buf>>

\* the target writes a byte to the connection the proxy dialed
TargetWrite(c) ==
  /\ connOut[c] = "open"
  /\ Len(tSent[c]) < workload.payload
  /\ tSent' = [tSent EXCEPT ![c] = Append(@, NextByte(tSent[c]))]
  /\ tIn' = [tIn EXCEPT ![c] = Append(@, NextByte(tSent[c]))]
  /\ UNCHANGED <<filterVars, serverVars, acceptVars, cbVars, connVars, tunnelVars, cSent, tRecv,
                 cRecv, cIn, buf>>

Take(s, k) == SubSeq(s, 1, k)
Drop(s, k) == SubSeq(s, k + 1, Len(s))

\* io.Copy: nr, er := src.Read(buf), which returns the next k bytes in flight
CopyRead(c, g, k) ==
  /\ cp[c][g] = "copy"
  /\ buf[c][g] = <<>>
  /\ SrcOpen(c, g)
  /\ LET in == IF g = "main" THEN tIn[c] ELSE cIn[c] IN
       /\ k \in 1..Len(in)
       /\ buf' = [buf EXCEPT ![c][g] = Take(in, k)]
       /\ IF g = "main"
          THEN /\ tIn' = [tIn EXCEPT ![c] = Drop(in, k)]
               /\ cIn' = cIn
          ELSE /\ cIn' = [cIn EXCEPT ![c] = Drop(in, k)]
               /\ tIn' = tIn
  /\ UNCHANGED <<filterVars, serverVars, acceptVars, cbVars, connVars, tunnelVars, cSent, tRecv,
                 tSent, cRecv>>

\* the bytes a Write of chunk b hands to the destination: buf[0:nr]
Written_twice(b) == b \o b

Written(b) == b

\* io.Copy: nw, ew := dst.Write(buf[0:nr]), all of the chunk
CopyWrite(c, g) ==
  /\ cp[c][g] = "copy"
  /\ buf[c][g] # <<>>
  /\ DstOpen(c, g)
  /\ IF g = "main"
     THEN /\ cRecv' = [cRecv EXCEPT ![c] = @ \o Written(buf[c][g])]
          /\ tRecv' = tRecv
     ELSE /\ tRecv' = [tRecv EXCEPT ![c] = @ \o Written(buf[c][g])]
          /\ cRecv' = cRecv
  /\ buf' = [buf EXCEPT ![c][g] = <<>>]
  /\ UNCHANGED <<filterVars, serverVars, acceptVars, cbVars, connVars, tunnelVars, cSent, tSent,
                 cIn, tIn>>

\* io.Copy: the Write fails after k bytes of the chunk (ew != nil, or a short
\* write); the copy stops and nothing is retried
CopyWriteFail(c, g, k) ==
  /\ cp[c][g] = "copy"
  /\ buf[c][g] # <<>>
  /\ DstOpen(c, g)
  /\ k \in 0..(Len(buf[c][g]) - 1)
  /\ IF g = "main"
     THEN /\ cRecv' = [cRecv EXCEPT ![c] = @ \o Written(Take(buf[c][g], k))]
          /\ tRecv' = tRecv
     ELSE /\ tRecv' = [tRecv EXCEPT ![c] = @ \o Written(Take(buf[c][g], k))]
          /\ cRecv' = cRecv
  /\ buf' = [buf EXCEPT ![c][g] = <<>>]
  /\ CopyGoto(c, g, "once")
  /\ UNCHANGED <<filterVars, serverVars, acceptVars, cbVars, connRest, connOut, closeOnce,
                 closeRuns, idleFired, cSent, tSent, cIn, tIn>>

\* ------------------------------------------------------- specifications
Callback(t) ==
  \/ CbSwitch(t)
  \/ CbLoad(t)
  \/ StopCheck(t)
  \/ StopSend(t)
  \/ StopStore(t)
  \/ IsStoppedCheck(t)
  \/ RestartCheck(t)
  \/ RestartSend(t)
  \/ RestartStore(t)

Accept ==
  \/ AcceptSelect
  \/ ListenerAccept

Serve(c) ==
  \/ ClientGone(c)
  \/ BadRequest(c)
  \/ HandlerScan(c)
  \/ HandlerServe(c)
  \/ Forward(c)
  \/ FinishKeepAlive(c)
  \/ FinishClose(c)

Intercept(c) ==
  \/ RespondOK(c)
  \/ Hijack(c)
  \/ HijackFail(c)
  \/ Dial(c)
  \/ StartRelay(c)

Relay(c, g) ==
  \/ CopyEnd(c, g)
  \/ CopyClosed(c, g)
  \/ OnceDo(c, g)
  \/ CloseClient(c, g)
  \/ CloseOut(c, g)

RelayBytes(c, g) ==
  \/ \E k \in 1..MaxPayload : CopyRead(c, g, k)
  \/ CopyWrite(c, g)
  \/ \E k \in 0..MaxPayload : CopyWriteFail(c, g, k)

\* the steps every workload takes
Common ==
  \/ \E c \in Conns : Arrive(c)
  \/ Accept
  \/ \E t \in Threads : Callback(t)
  \/ \E c \in Conns : \E r \in Requests \cup {Malformed} : ClientRequest(c, r)
  \/ \E c \in Conns : Serve(c)
  \/ \E c \in Conns : Intercept(c)
  \/ \E c \in Conns : \E g \in Dirs : Relay(c, g)
  \/ \E c \in Conns : IdleFire(c)

\* The admission workload: NumClients clients, connections limited to cap,
\* no bytes through the tunnels.
ServerCaps == {1}
ServerRequests ==
  { [method |-> "GET", token |-> "good", uid |-> "uid", target |-> "plain"],
    [method |-> "GET", token |-> "none", uid |-> "uid", target |-> "plain"],
    [method |-> "CONNECT", token |-> "good", uid |-> "uid", target |-> "plain"],
    [method |-> "CONNECT", token |-> "good", uid |-> "uid", target |-> "unreachable"],
    Malformed }
Init ==
  /\ token = "good"
  /\ NoPortFilter
  /\ \E cap \in ServerCaps :
    InitWith(cap, [clients |-> NumClients, requests |-> MaxRequests, kinds |-> ServerRequests,
                   payload |-> 0,
                   addrs |-> DistinctAddrs])
Next ==
  \/ Common
  \/ \E c \in Conns : HandlerRequeue(c)
Spec == Init /\ [][Next]_vars

\* The relay workload: one client, whose tunnel carries up to MaxPayload
\* bytes each way.
RelayCaps == {1}
RelayInit ==
  /\ token = "good"
  /\ NoPortFilter
  /\ \E cap \in RelayCaps :
    InitWith(cap, [clients |-> 1, requests |-> MaxRequests,
                   kinds |-> Requests \cup {Malformed}, payload |-> MaxPayload,
                   addrs |-> DistinctAddrs])
RelayNext ==
  \/ Common
  \/ \E c \in Conns : ClientWrite(c)
  \/ \E c \in Conns : TargetWrite(c)
  \/ \E c \in Conns : \E g \in Dirs : RelayBytes(c, g)
RelaySpec == RelayInit /\ [][RelayNext]_vars

\* The unbounded workload: NumClients clients, each with one direct request,
\* against a server built with no limit (0) or with a limit.
AdmissionCaps == {0, 1}
AdmissionRequests ==
  { [method |-> "GET", token |-> "good", uid |-> "uid", target |-> "plain"] }
AdmissionInit ==
  /\ token = "good"
  /\ NoPortFilter
  /\ \E cap \in AdmissionCaps :
    InitWith(cap, [clients |-> NumClients, requests |-> 1, kinds |-> AdmissionRequests,
                   payload |-> 0,
                   addrs |-> DistinctAddrs])
AdmissionNext ==
  \/ \E c \in Conns : Arrive(c)
  \/ Accept
  \/ \E t \in Threads : Callback(t)
  \/ \E c \in Conns : \E r \in AdmissionRequests : ClientRequest(c, r)
  \/ \E c \in Conns : ClientGone(c)
  \/ \E c \in Conns : HandlerScan(c)
  \/ \E c \in Conns : HandlerServe(c)
  \/ \E c \in Conns : Forward(c)
  \/ \E c \in Conns : FinishKeepAlive(c)
  \/ \E c \in Conns : FinishClose(c)
AdmissionSpec == AdmissionInit /\ [][AdmissionNext]_vars

\* The configuration workload: one client against a server built with an
\* empty or a proper token.
ConfigCaps == {1}
ConfigInit ==
  /\ token \in ServerTokens
  /\ NoPortFilter
  /\ \E cap \in ConfigCaps :
    InitWith(cap, [clients |-> 1, requests |-> MaxRequests, kinds |-> ServerRequests,
                   payload |-> 0,
                   addrs |-> DistinctAddrs])
ConfigNext ==
  \/ Common
  \/ \E c \in Conns : HandlerPanic(c)
ConfigSpec == ConfigInit /\ [][ConfigNext]_vars

\* The queue workload: two clients with one direct or one unparsable
\* request each, from addresses of their own or from the same address one
\* after the other, after up to QueueCap earlier connections.
QueueCaps == {1}
QueueRequests ==
  { [method |-> "GET", token |-> "good", uid |-> "uid", target |-> "plain"],
    Malformed }
QueueInit ==
  /\ token = "good"
  /\ NoPortFilter
  /\ \E cap \in QueueCaps : \E a \in {DistinctAddrs, ReusedAddrs} :
    InitWith(cap, [clients |-> 2, requests |-> 1, kinds |-> QueueRequests, payload |-> 0,
                   addrs |-> a])
QueueNext ==
  \/ EarlierActive
  \/ \E c \in Conns : Arrive(c)
  \/ Accept
  \/ \E t \in Threads : Callback(t)
  \/ \E c \in Conns : \E r \in QueueRequests : ClientRequest(c, r)
  \/ \E c \in Conns : ClientGone(c)
  \/ \E c \in Conns : BadRequest(c)
  \/ \E c \in Conns : HandlerScan(c)
  \/ \E c \in Conns : HandlerRequeue(c)
  \/ \E c \in Conns : HandlerServe(c)
  \/ \E c \in Conns : Forward(c)
  \/ \E c \in Conns : FinishKeepAlive(c)
  \/ \E c \in Conns : FinishClose(c)
QueueSpec == QueueInit /\ [][QueueNext]_vars

\* The accept-error workload: the admission workload with a listener whose
\* Accept can fail.
FaultNext ==
  \/ AdmissionNext
  \/ AcceptTemporary
  \/ AcceptFails
FaultSpec == AdmissionInit /\ [][FaultNext]_vars

\* The port filter on its own: every request and allow-list within the bounds.
PortsInit ==
  /\ token = "good"
  /\ allowedPorts \in AllowLists
  /\ portReq \in PortRequests
  /\ portResp = NoPortResp
  /\ InitWith(0, [clients |-> 0, requests |-> 0, kinds |-> {}, payload |-> 0,
                   addrs |-> DistinctAddrs])
PortsNext == ApplyPortFilter
PortsSpec == PortsInit /\ [][PortsNext]_vars


\* ---------------------------------------------------------------- claims
\* the connections Accept returned and the proxy has not closed
OpenConns == {c \in Conns : tr[c] = "open"}

\* C1: with the cap N, the connections accepted and not yet closed never
\* number more than N.
C1_CapRespected == Cardinality(OpenConns) <= maxConns


\* no goroutine is inside the ConnState callback
NoCallback == \A t \in Threads : cbpc[t] = "none"

\* every goroutine the server started for a connection has finished
Settled ==
  /\ NoCallback
  /\ \A c \in Conns : pc[c] \in {"none", "done"} /\ cp[c].bg \in {"none", "ret"}

\* C2: once an open connection has terminated, whatever it carried, the
\* listener does not stay paused: with every connection goroutine finished,
\* Accept is not left waiting for a restart.
C2_AcceptResumes ==
  (Settled /\ \E c \in Conns : tr[c] = "closed") => apc # "waitRestart"

\* a connection's New or Closed report has not been counted yet
ReportPending ==
  \E t \in Threads : cbpc[t] = "switch" /\ cbState[t] \in {"New", "Closed"}

\* C3: numConns is the number of connections accepted and not yet closed,
\* hijacked ones included, and is never negative.
C3_CountIsExact ==
  /\ numConns >= 0
  /\ ~ReportPending => numConns = Cardinality(OpenConns)

\* C9: when the dial of a CONNECT request fails, the client connection is
\* closed, and nothing was written to it after the 200.
DialFailed(c) ==
  /\ pc[c] = "done"
  /\ events[c] # <<>>
  /\ events[c][Len(events[c])] = "dialFailed"
C9_DialFailureClosesClient ==
  \A c \in Conns : DialFailed(c) => tr[c] = "closed" /\ resp[c] = <<200>>


\* ------------------------------------------------- claims about a tunnel
\* C4: closeConns runs exactly once per tunnel, whichever copy direction
\* finishes first, and once it has run both connections are closed.
C4_CloseConnsOnce ==
  \A c \in Conns :
    /\ closeRuns[c] <= 1
    /\ \A g \in Dirs : cp[c][g] = "ret" => closeRuns[c] = 1 /\ closeOnce[c] = "done"
    /\ closeOnce[c] = "done" => tr[c] = "closed" /\ connOut[c] = "closed"

C4_Witness ==
  \E c \in Conns : cp[c].main = "ret" /\ cp[c].bg = "ret" /\ closeRuns[c] = 1

\* The goroutines of the proxy that can run do run, and a Read or Write on a
\* connection closed on this side returns.
RelayFairness ==
  \A c \in Conns : \A g \in Dirs :
    /\ WF_vars(CopyClosed(c, g))
    /\ WF_vars(CopyWrite(c, g))
    /\ WF_vars(OnceDo(c, g))
    /\ WF_vars(CloseClient(c, g))
    /\ WF_vars(CloseOut(c, g))
FairRelaySpec == RelaySpec /\ RelayFairness

\* C5: after the idle timer of a tunnel fired, both its connections are
\* eventually closed, and once closeConns has run, a later call of the
\* teardown path changes nothing.
C5_IdleTeardown ==
  /\ \A c \in Conns : idleFired[c] ~> (tr[c] = "closed" /\ connOut[c] = "closed")
  /\ [][\A c \in Conns : closeOnce[c] = "done" =>
          /\ closeOnce'[c] = "done"
          /\ closeRuns'[c] = closeRuns[c]
          /\ tr'[c] = tr[c]
          /\ connOut'[c] = connOut[c]]_vars

C5_Witness ==
  \E c \in Conns :
    /\ idleFired[c]
    /\ tr[c] = "closed" /\ connOut[c] = "closed"
    /\ cp[c].main = "ret" /\ cp[c].bg = "ret"

\* s is a prefix of t
IsPrefix(s, t) == Len(s) <= Len(t) /\ s = SubSeq(t, 1, Len(s))

\* C7: what the target received is a prefix of what the client wrote after
\* the 200, and what the client received a prefix of what the target wrote.
C7_ByteTransparent ==
  \A c \in Conns : IsPrefix(tRecv[c], cSent[c]) /\ IsPrefix(cRecv[c], tSent[c])

C7_Witness ==
  \E c \in Conns : tRecv[c] = <<1, 2>> /\ cRecv[c] = <<1, 2>>

\* C8: intercept sends the 200, then takes over the client transport, then
\* dials; the 200 is out before the dial, whatever the dial's outcome.
C8_InterceptOrder ==
  \A c \in Conns : \A i \in 1..Len(events[c]) :
    /\ events[c][i] = "ok" => i = 1 /\ resp[c][1] = 200
    /\ events[c][i] \in {"hijack", "hijackFailed"} => i = 2 /\ events[c][1] = "ok"
    /\ events[c][i] \in {"dial", "dialFailed"} =>
         i = 3 /\ events[c][2] = "hijack" /\ resp[c][1] = 200

C8_Witness ==
  \E c \in Conns : events[c] = <<"ok", "hijack", "dialFailed">> /\ resp[c] = <<200>>

\* ------------------------------------------ claims about the filter chain
Unauthorized(r) == r.method \in Methods /\ (r.token # token \/ r.uid = "none")
AtDispatcher(c) == pc[c] \in {"respondOK", "forward"} \/ events[c] # <<>>

\* C6: a request without the token header, without the identifier header or
\* with a wrong token is answered 404, CONNECT and direct alike.
C6_Unauthorized404 ==
  \A c \in Conns : Unauthorized(sent[c]) =>
    /\ ~AtDispatcher(c)
    /\ pc[c] = "finish" => resp[c] = <<404>>

C6_Witness ==
  \E c \in Conns :
    /\ sent[c].method = "CONNECT" /\ sent[c].token = "good" /\ sent[c].uid = "none"
    /\ pc[c] = "finish" /\ resp[c] = <<404>>

\* C10: no request at the dispatcher, and none forwarded to the target,
\* carries the token header or the identifier header.
C10_HeadersStripped ==
  \A c \in Conns : AtDispatcher(c) => req[c].token = "none" /\ req[c].uid = "none"

C10_Witness ==
  \E c \in Conns :
    /\ sent[c].token = "good" /\ sent[c].uid = "uid"
    /\ events[c] = <<"forward">>
    /\ req[c].token = "none" /\ req[c].uid = "none"

\* ------------------------------------------------ claims C11 to C20
\* the order of the filters as the specification gives it
PipelineOrder ==
  <<"tokenFilter", "deviceFilter", "lanternPro", "connectHandler", "forwardHandler">>

\* C11: every request goes through the filters in the order token check,
\* identity extraction, tier classification, dispatcher.
C11_FilterOrder ==
  \A c \in Conns :
    pc[c] = "serve" => IsPrefix(ServeHTTP(firstComponent, req[c], <<>>).visited, PipelineOrder)

\* a goroutine is inside Stop
InStop == \E t \in Threads : cbpc[t] \in {"stopCheck", "stopSend", "stopStore"}

\* C12: a server built with the maximum 0 is never paused: Stop is not
\* called, no stop token is queued and Accept never waits for a restart,
\* however many connections are open.
C12_UnboundedNeverPaused ==
  maxConns = NewServerMaxConns(0) =>
    /\ ~InStop
    /\ stopped = 0
    /\ stop = 0
    /\ apc # "waitRestart"

C12_Witness ==
  /\ maxConns = NewServerMaxConns(0)
  /\ Cardinality(OpenConns) = NumClients
  /\ numConns = NumClients

\* ---------------------------------------------- claims about the port filter
\* the Host reads as host:port or [host]:port: one colon ends it, no colon
\* and no bracket is in the port, and the host is free of colons and
\* brackets or is enclosed in one pair of brackets
WellFormedHost(h) ==
  \E i \in 1..Len(h) :
    /\ h[i] = ":"
    /\ \A j \in (i + 1)..Len(h) : h[j] \notin {":", "[", "]"}
    /\ \/ \A j \in 1..(i - 1) : h[j] \notin {":", "[", "]"}
       \/ /\ i >= 3
          /\ h[1] = "[" /\ h[i - 1] = "]"
          /\ \A j \in 2..(i - 2) : h[j] \notin {"[", "]"}

\* what follows the last colon of the Host
PortOf(h) ==
  LET i == CHOOSE k \in 1..Len(h) : h[k] = ":" /\ \A j \in (k + 1)..Len(h) : h[j] # ":"
  IN SubSeq(h, i + 1, Len(h))

\* the port is a decimal number, with or without a sign
IsNumber(p) ==
  /\ p # <<>>
  /\ p[Len(p)] \in Digits
  /\ \A i \in 2..Len(p) : p[i] \in Digits
  /\ p[1] \in Digits \cup {"+"}

RECURSIVE Pow10(_)
Pow10(n) == IF n = 0 THEN 1 ELSE 10 * Pow10(n - 1)

\* the number p stands for: the digit at place i counts 10^(Len(p) - i)
RECURSIVE PlaceSum(_, _)
PlaceSum(p, i) ==
  IF i > Len(p) THEN 0
  ELSE (IF p[i] \in Digits THEN DigitValue(p[i]) * Pow10(Len(p) - i) ELSE 0) + PlaceSum(p, i + 1)

\* the Host names a port, and the port is on the allow-list
PortAllowed(allowed, h) ==
  \E k \in 1..Len(allowed) : allowed[k] = PlaceSum(PortOf(h), 1)
HasPort(h) == WellFormedHost(h) /\ IsNumber(PortOf(h))

\* what the filter does to a CONNECT request under a restriction
ConnectRestricted(allowed, r, out) ==
  /\ ~HasPort(r.host) => out.status = 400 /\ out.next = 0
  /\ HasPort(r.host) /\ ~PortAllowed(allowed, r.host) => out.status = 403 /\ out.next = 0
  /\ HasPort(r.host) /\ PortAllowed(allowed, r.host) => out = [status |-> 0, next |-> 1, req |-> r]

Authenticated(r) == r.method \in Methods /\ r.token = token /\ r.uid # "none"

\* C14: an authenticated direct request to a reachable plaintext target is
\* answered with the target's response body, and one to a target that only
\* accepts TLS with status 500.
C14_DirectProxy ==
  \A c \in Conns :
    (Authenticated(sent[c]) /\ sent[c].method = "GET" /\ pc[c] = "finish") =>
      /\ sent[c].target = "plain" => resp[c] = <<200>> /\ body[c] = "target"
      /\ sent[c].target = "tls" => resp[c] = <<500>> /\ body[c] # "target"

C14_Witness ==
  \E c \in Conns :
    /\ sent[c] = [method |-> "GET", token |-> "good", uid |-> "uid", target |-> "tls"]
    /\ pc[c] = "finish"
    /\ resp[c] = <<500>>

\* C15: a server constructed with an empty token never serves: no
\* connection is accepted and handed to a goroutine.
C15_EmptyTokenNeverServes ==
  token = "" => \A c \in Conns : pc[c] = "none"

\* the Stop signals out: tokens in the channel and sends about to happen
StopSignals == stop + Cardinality({t \in Threads : cbpc[t] = "stopSend"})
\* the Restart signals out: sends waiting for Accept to receive
RestartSignals == Cardinality({t \in Threads : cbpc[t] = "restartSend"})

\* C16: Stop and Restart are signalled once per transition, whatever the
\* interleaving of the callbacks: never two Stop signals or two Restart
\* signals at a time, and no stop token left in the channel of a running
\* listener.
C16_SignalsOnce ==
  /\ StopSignals <= 1
  /\ RestartSignals <= 1
  /\ (NoCallback /\ stopped = 0) => stop = 0

\* C17: for a request that fails the token check or the identity check no
\* 200 is sent, the client transport is not hijacked, nothing is dialed and
\* nothing is forwarded.
C17_DispatcherGuarded ==
  \A c \in Conns : Unauthorized(sent[c]) =>
    /\ \A i \in 1..Len(resp[c]) : resp[c][i] # 200
    /\ ~hijacked[c]
    /\ connOut[c] = "none"
    /\ events[c] = <<>>
    /\ pc[c] \notin {"respondOK", "hijack", "dial", "relay", "tunnel", "forward"}

C17_Witness ==
  \E c \in Conns :
    /\ sent[c] = [method |-> "CONNECT", token |-> "bad", uid |-> "uid", target |-> "plain"]
    /\ pc[c] = "finish"
    /\ resp[c] = <<404>>
    /\ ~hijacked[c] /\ connOut[c] = "none"

\* C18: once a copy direction of a tunnel has finished, both directions
\* return, the background goroutine ends and intercept returns.
C18_CopyTerminates ==
  \A c \in Conns :
    (\E g \in Dirs : cp[c][g] = "once")
      ~> (cp[c].main = "ret" /\ cp[c].bg = "ret" /\ pc[c] = "done")

C18_Witness ==
  \E c \in Conns :
    /\ cp[c].main = "ret" /\ cp[c].bg = "ret" /\ pc[c] = "done"
    /\ ~idleFired[c]
    /\ tRecv[c] # <<>>

\* C19: an authenticated request that is not CONNECT is handed to the
\* forward handler once, and the dispatcher neither answers it nor hijacks
\* the connection nor dials: after it the connection is open under HTTP
\* framing.
C19_NonConnectKeepsFraming ==
  \A c \in Conns : (Authenticated(sent[c]) /\ sent[c].method = "GET") =>
    /\ ~hijacked[c]
    /\ connOut[c] = "none"
    /\ events[c] \in {<<>>, <<"forward">>}
    /\ pc[c] = "finish" => events[c] = <<"forward">> /\ Len(resp[c]) = 1 /\ tr[c] = "open"

C19_Witness ==
  \E c \in Conns :
    /\ nreq[c] = 2
    /\ Authenticated(sent[c]) /\ sent[c].method = "GET"
    /\ pc[c] = "finish" /\ events[c] = <<"forward">> /\ tr[c] = "open"

\* the handler is at work on request n of connection c
InHandler(c, n) ==
  /\ nreq[c] = n
  /\ \/ pc[c] \in {"serve", "forward", "panic", "finish", "respondOK", "hijack", "dial",
                   "relay", "tunnel"}
     \/ pc[c] = "callback" /\ cbState[c] = "Hijacked"

\* C20: the context store holds no entry of a request that has completed.
C20_ContextDiscarded ==
  \A e \in data : InHandler(e[1], e[2])

\* ------------------------------------------------ claims C21 to C25
\* C21: the connection stored under "conn" for a request is the connection
\* the request arrived on.
C21_ConnIsRequests ==
  /\ \A c \in Conns : ctxConn[c] \in {0, c}
  /\ \A e \in data : e[3] = e[1]

\* C22: a failed Accept does not end the accept loop: the server keeps
\* accepting.
C22_AcceptLoopContinues == apc # "returned"

\* C23: no call of Stop or Restart stays blocked for ever on its channel, and
\* Accept is not left waiting for a restart with the count below the cap:
\* when nothing can move any more, no callback is at a send and Accept is
\* not waiting under the cap.
C23_SignalsReturn ==
  (~ENABLED Next) =>
    /\ \A t \in Threads : cbpc[t] \notin {"stopSend", "restartSend"}
    /\ ~(apc = "waitRestart" /\ numConns < maxConns)

\* a connection with the remote address of c's request is in q, or in the
\* hands of a handler that will put it back
Findable(c) ==
  \/ \E i \in 1..Len(q) : RemoteAddr(q[i]) = RemoteAddr(c)
  \/ \E d \in Conns : held[d] # 0 /\ RemoteAddr(held[d]) = RemoteAddr(c)

\* C24: a request whose handler is in the queue scan leaves it: there is a
\* connection for it to find.
C24_ScanEnds ==
  \A c \in Conns : pc[c] = "scan" => Findable(c)

\* C25: at most one status is written to the client for a CONNECT request
\* at the dispatcher, also when Hijack fails.
C25_OneStatus ==
  \A c \in Conns : sent[c].method = "CONNECT" => Len(resp[c]) <= 1

====
